---- MODULE Spec2Model ----
(***************************************************************************)
(* LAS Player: the playback/playlist state core.                           *)
(*                                                                         *)
(* StateManager (one mutable state record plus the playlist navigation     *)
(* queries), the PlaylistManager operations built on it, EventBus.emit     *)
(* with the subscribers that change state (MediaController.loadTrack,      *)
(* which owns the media element's src and revokes blob URLs, and           *)
(* UIManager.updatePlaylistUI), and PlayerCore.destroy.                    *)
(*                                                                         *)
(* Six specifications:                                                     *)
(*   Spec     the store and the playlist manager as imported modules,      *)
(*            nothing subscribed to the bus, every public method called    *)
(*            with index arguments in range or not;                        *)
(*   AppSpec  the constructed PlayerCore: its components are subscribed,   *)
(*            tracks are made from files, the UI passes rendered indices;  *)
(*   BusSpec  the EventBus class used by client code: on, once, off, the   *)
(*            returned unsubscribe functions, emit and clear, with         *)
(*            handlers that return, throw, or emit again;                  *)
(*   GetSpec  StateManager.get and a caller that writes to the values it   *)
(*            returned;                                                    *)
(*   PrefSpec the persisted preferences: StateManager.set with             *)
(*            persistState, localStorage, VolumeController, ThemeManager   *)
(*            and page reloads;                                            *)
(*   CascadeSpec  EventBus.emit step by step with every handler the        *)
(*            application registers, for each external event.              *)
(*                                                                         *)
(* A track is identified by a positive integer; its blob URL (track.url,   *)
(* made by URL.createObjectURL in FileLoader.createTrackFromFile) is       *)
(* identified by the same integer.  JavaScript's undefined, which          *)
(* Array.prototype.splice can put into the playlist, is Undefined.         *)
(* Indices are 0-based as in the source; TLA+ sequences are 1-based, so    *)
(* the JS expression a[i] is written a[i + 1].                             *)
(***************************************************************************)
EXTENDS Integers, Sequences, FiniteSets, TLC

\* ---------------------------------------------------------------- bounds
MaxTracks == 2      \* number of track objects
MaxRevoke == 2      \* URL.revokeObjectURL calls counted per URL
MaxSubs   == 2      \* EventBus.on / once calls in one run
MaxCalls  == 2      \* invocations counted per once-registered handler
MaxPublishes == 6   \* eventBus.emit calls counted per external event

MaxLen    == MaxTracks       \* longest playlist explored
Tracks    == 1..MaxTracks
\* index arguments: every valid index, two negative integers and the length itself
IndexArgs == (0 - 2)..MaxLen

\* ------------------------------------------------------- JS value helpers
Undefined == 0      \* the value of `const [track] = []` / a missing payload field
NoSrc     == 0      \* media.src === '' and state.currentSrc === null

Min(a, b) == IF a < b THEN a ELSE b
Max(a, b) == IF a > b THEN a ELSE b

Range(s) == {s[k] : k \in 1..Len(s)}

\* Array.prototype.indexOf: 0-based position of the first match, or -1
IndexOf(s, x) ==
    IF \E k \in 1..Len(s) : s[k] = x
    THEN (CHOOSE k \in 1..Len(s) : s[k] = x /\ \A m \in 1..(k - 1) : s[m] # x) - 1
    ELSE -1

\* playlist.filter((_, i) => i !== index)
FilterOut(s, index) ==
    IF index >= 0 /\ index < Len(s)
    THEN [k \in 1..(Len(s) - 1) |-> IF k - 1 < index THEN s[k] ELSE s[k + 1]]
    ELSE s

\* the start position Array.prototype.splice actually uses
SpliceStart(start, len) ==
    IF start < 0 THEN Max(len + start, 0) ELSE Min(start, len)

\* Object.assign(this.state, updates)
Merge(st, updates) ==
    [k \in DOMAIN st |-> IF k \in DOMAIN updates THEN updates[k] ELSE st[k]]

\* ------------------------------------------------------------------ state
VARIABLES
    state,        \* StateManager.state
    mediaSrc,     \* MediaController.media.src
    revoked,      \* per blob URL: number of URL.revokeObjectURL calls
    numCreated,   \* number of URL.createObjectURL calls so far
    subscribed,   \* EventBus.events holds the handlers PlayerCore's components register
    published,    \* the events the observed call published, in order
    last,         \* the observed call: operation, arguments and the state before it
    bus,          \* an EventBus instance and the client code that uses it
    client,       \* what a caller of StateManager.get holds
    session,      \* the store's preference fields, the media element's volume, localStorage
    delivery      \* the calls of eventBus.emit in progress, for one external event

vars == <<state, mediaSrc, revoked, numCreated, subscribed, published, last, bus, client, session, delivery>>

\* StateManager constructor (the fields the operations below read or write)
InitState ==
    [ isPlaying         |-> FALSE,
      currentSrc        |-> NoSrc,
      playlist          |-> <<>>,
      currentTrackIndex |-> -1,
      shuffleEnabled    |-> FALSE,
      repeatMode        |-> "off",
      shuffledOrder     |-> <<>> ]

\* an event: topic plus the payload fields used by any topic
Ev(topic, index, track, playlist, flag) ==
    [topic |-> topic, index |-> index, track |-> track,
     playlist |-> playlist, flag |-> flag]

\* The operations are functions on a world record
\*   [st: state, src: media.src, rev: revoked, sub: subscribed, pub: events so far]
World == [st |-> state, src |-> mediaSrc, rev |-> revoked, sub |-> subscribed, pub |-> <<>>]

\* url.startsWith('blob:')
IsBlob(url) == url \in Tracks

\* StateManager.set without an event name
set(w, updates) == [w EXCEPT !.st = Merge(w.st, updates)]

\* the record of one publication
publish(w, ev) == [w EXCEPT !.pub = Append(@, ev)]

\* MediaController.loadTrack
loadTrack(w, track) ==
    IF track = Undefined
    THEN w
    ELSE LET w1 == IF w.src # NoSrc /\ IsBlob(w.src)
                   THEN [w EXCEPT !.rev[w.src] = @ + 1]
                   ELSE w
             w2 == [w1 EXCEPT !.src = track]
             w3 == set(w2, [currentSrc |-> track])
         IN  publish(w3, Ev("media:load", -1, track, <<>>, ""))

\* EventBus.emit, with those registered handlers that change state or publish:
\* MediaController.loadTrack on track-change, UIManager.updatePlaylistUI on playlist-update
emit(w, ev) ==
    LET w1 == publish(w, ev) IN
    CASE w.sub /\ ev.topic = "playlist:trackchange" -> loadTrack(w1, ev.track)
      [] w.sub /\ ev.topic = "playlist:update" ->
             publish(w1, Ev("ui:playlist:render", -1, Undefined, <<>>, ""))
      [] OTHER -> w1

\* setPlaylist that returns early, without an event, for an empty track list
setPlaylist_SkipEmpty(w, playlist) ==
    IF Len(playlist) = 0 THEN w
    ELSE emit(set(w, [playlist |-> playlist, currentTrackIndex |-> 0]),
              Ev("playlist:update", -1, Undefined, playlist, ""))

\* StateManager.setPlaylist
setPlaylist(w, playlist) ==
    emit(set(w, [playlist |-> playlist,
                 currentTrackIndex |-> IF Len(playlist) > 0 THEN 0 ELSE -1]),
         Ev("playlist:update", -1, Undefined, playlist, ""))

\* addToPlaylist that appends and keeps the current track selected
addToPlaylist_KeepCurrent(w, tracks) ==
    LET playlist == w.st.playlist \o tracks
    IN  emit(set(w, [playlist |-> playlist]),
             Ev("playlist:update", -1, Undefined, playlist, ""))

\* StateManager.addToPlaylist
addToPlaylist(w, tracks) == setPlaylist(w, w.st.playlist \o tracks)

\* removeFromPlaylist without the clamp of a removed current index
removeFromPlaylist_NoClamp(w, index) ==
    LET newPlaylist == FilterOut(w.st.playlist, index)
        cur == w.st.currentTrackIndex
        newIndex == IF index < cur THEN cur - 1 ELSE cur
    IN  emit(set(w, [playlist |-> newPlaylist, currentTrackIndex |-> newIndex]),
             Ev("playlist:update", -1, Undefined, newPlaylist, ""))

\* StateManager.removeFromPlaylist
removeFromPlaylist(w, index) ==
    LET newPlaylist == FilterOut(w.st.playlist, index)
        cur == w.st.currentTrackIndex
        newIndex == IF index < cur THEN cur - 1
                    ELSE IF index = cur THEN Min(cur, Len(newPlaylist) - 1)
                    ELSE cur
    IN  emit(set(w, [playlist |-> newPlaylist, currentTrackIndex |-> newIndex]),
             Ev("playlist:update", -1, Undefined, newPlaylist, ""))

\* setCurrentTrack that returns early when the index is already current
setCurrentTrack_SkipSame(w, index) ==
    IF index >= 0 /\ index < Len(w.st.playlist) /\ index # w.st.currentTrackIndex
    THEN emit(set(w, [currentTrackIndex |-> index]),
              Ev("playlist:trackchange", index, w.st.playlist[index + 1], <<>>, ""))
    ELSE w

\* setCurrentTrack with the upper bound test index <= playlist.length
setCurrentTrack_OffByOne(w, index) ==
    IF index >= 0 /\ index <= Len(w.st.playlist)
    THEN emit(set(w, [currentTrackIndex |-> index]),
              Ev("playlist:trackchange", index,
                 IF index < Len(w.st.playlist) THEN w.st.playlist[index + 1] ELSE Undefined,
                 <<>>, ""))
    ELSE w

\* StateManager.setCurrentTrack
setCurrentTrack(w, index) ==
    IF index >= 0 /\ index < Len(w.st.playlist)
    THEN emit(set(w, [currentTrackIndex |-> index]),
              Ev("playlist:trackchange", index, w.st.playlist[index + 1], <<>>, ""))
    ELSE w

\* getNextTrackIndex that tests repeat-one only on the sequential path
getNextTrackIndex_ShuffleFirst(st) ==
    IF Len(st.playlist) = 0 THEN -1
    ELSE IF st.shuffleEnabled /\ Len(st.shuffledOrder) > 0
         THEN LET nextShufflePos == IndexOf(st.shuffledOrder, st.currentTrackIndex) + 1
              IN  IF nextShufflePos >= Len(st.shuffledOrder)
                  THEN (IF st.repeatMode = "all" THEN st.shuffledOrder[1] ELSE -1)
                  ELSE st.shuffledOrder[nextShufflePos + 1]
         ELSE IF st.repeatMode = "one" THEN st.currentTrackIndex
         ELSE LET nextIndex == st.currentTrackIndex + 1
              IN  IF nextIndex >= Len(st.playlist)
                  THEN (IF st.repeatMode = "all" THEN 0 ELSE -1)
                  ELSE nextIndex

\* getNextTrackIndex with the end test nextIndex > playlist.length
getNextTrackIndex_OffByOne(st) ==
    IF Len(st.playlist) = 0 THEN -1
    ELSE IF st.repeatMode = "one" THEN st.currentTrackIndex
    ELSE IF st.shuffleEnabled /\ Len(st.shuffledOrder) > 0
         THEN LET nextShufflePos == IndexOf(st.shuffledOrder, st.currentTrackIndex) + 1
              IN  IF nextShufflePos >= Len(st.shuffledOrder)
                  THEN (IF st.repeatMode = "all" THEN st.shuffledOrder[1] ELSE -1)
                  ELSE st.shuffledOrder[nextShufflePos + 1]
         ELSE LET nextIndex == st.currentTrackIndex + 1
              IN  IF nextIndex > Len(st.playlist)
                  THEN (IF st.repeatMode = "all" THEN 0 ELSE -1)
                  ELSE nextIndex

\* getNextTrackIndex that wraps at the end of the shuffle order in every repeat mode
getNextTrackIndex_ShuffleAlwaysWrap(st) ==
    IF Len(st.playlist) = 0 THEN -1
    ELSE IF st.repeatMode = "one" THEN st.currentTrackIndex
    ELSE IF st.shuffleEnabled /\ Len(st.shuffledOrder) > 0
         THEN LET nextShufflePos == IndexOf(st.shuffledOrder, st.currentTrackIndex) + 1
              IN  IF nextShufflePos >= Len(st.shuffledOrder)
                  THEN st.shuffledOrder[1]
                  ELSE st.shuffledOrder[nextShufflePos + 1]
         ELSE LET nextIndex == st.currentTrackIndex + 1
              IN  IF nextIndex >= Len(st.playlist)
                  THEN (IF st.repeatMode = "all" THEN 0 ELSE -1)
                  ELSE nextIndex

\* StateManager.getNextTrackIndex
getNextTrackIndex(st) ==
    IF Len(st.playlist) = 0 THEN -1
    ELSE IF st.repeatMode = "one" THEN st.currentTrackIndex
    ELSE IF st.shuffleEnabled /\ Len(st.shuffledOrder) > 0
         THEN LET nextShufflePos == IndexOf(st.shuffledOrder, st.currentTrackIndex) + 1
              IN  IF nextShufflePos >= Len(st.shuffledOrder)
                  THEN (IF st.repeatMode = "all" THEN st.shuffledOrder[1] ELSE -1)
                  ELSE st.shuffledOrder[nextShufflePos + 1]
         ELSE LET nextIndex == st.currentTrackIndex + 1
              IN  IF nextIndex >= Len(st.playlist)
                  THEN (IF st.repeatMode = "all" THEN 0 ELSE -1)
                  ELSE nextIndex

\* StateManager.getPreviousTrackIndex
getPreviousTrackIndex(st) ==
    IF Len(st.playlist) = 0 THEN -1
    ELSE IF st.shuffleEnabled /\ Len(st.shuffledOrder) > 0
         THEN LET prevShufflePos == IndexOf(st.shuffledOrder, st.currentTrackIndex) - 1
              IN  IF prevShufflePos >= 0
                  THEN st.shuffledOrder[prevShufflePos + 1]
                  ELSE st.shuffledOrder[Len(st.shuffledOrder)]
         ELSE IF st.currentTrackIndex > 0
              THEN st.currentTrackIndex - 1
              ELSE Len(st.playlist) - 1

\* [indices[i], indices[j]] = [indices[j], indices[i]]   (0-based i, j)
Swap(s, i, j) ==
    [k \in 1..Len(s) |-> IF k = i + 1 THEN s[j + 1]
                         ELSE IF k = j + 1 THEN s[i + 1]
                         ELSE s[k]]

\* the Fisher-Yates loop of toggleShuffle, from position i downwards;
\* js[i] is the value Math.floor(Math.random() * (i + 1)) at step i
RECURSIVE FisherYates(_, _, _)
FisherYates(indices, i, js) ==
    IF i <= 0 THEN indices
    ELSE FisherYates(Swap(indices, i, js[i]), i - 1, js)

\* the values Math.random can yield for a loop over n elements
RandomChoices(n) == {js \in [1..(n - 1) -> 0..(n - 1)] : \A i \in 1..(n - 1) : js[i] <= i}

\* playlist.map((_, i) => i).filter((i) => i !== currentTrackIndex)
OtherIndices(st) ==
    LET n == Len(st.playlist)
        cur == st.currentTrackIndex
    IN  IF cur >= 0 /\ cur < n
        THEN [k \in 1..(n - 1) |-> IF k - 1 < cur THEN k - 1 ELSE k]
        ELSE [k \in 1..n |-> k - 1]

\* StateManager.toggleShuffle
toggleShuffle(w, js) ==
    LET shuffleEnabled == ~w.st.shuffleEnabled
        indices == OtherIndices(w.st)
        shuffledOrder ==
            IF shuffleEnabled
            THEN <<w.st.currentTrackIndex>> \o FisherYates(indices, Len(indices) - 1, js)
            ELSE <<>>
    IN  emit(set(w, [shuffleEnabled |-> shuffleEnabled, shuffledOrder |-> shuffledOrder]),
             Ev("playlist:shuffle", -1, Undefined, <<>>,
                IF shuffleEnabled THEN "true" ELSE "false"))

\* cycleRepeatMode with the mode list [off, all]
cycleRepeatMode_TwoModes(w) ==
    LET modes == <<"off", "all">>
        currentIndex == IndexOf(modes, w.st.repeatMode)
        nextMode == modes[((currentIndex + 1) % Len(modes)) + 1]
    IN  emit(set(w, [repeatMode |-> nextMode]),
             Ev("playlist:repeat", -1, Undefined, <<>>, nextMode))

\* StateManager.cycleRepeatMode
cycleRepeatMode(w) ==
    LET modes == <<"off", "all", "one">>
        currentIndex == IndexOf(modes, w.st.repeatMode)
        nextMode == modes[((currentIndex + 1) % Len(modes)) + 1]
    IN  emit(set(w, [repeatMode |-> nextMode]),
             Ev("playlist:repeat", -1, Undefined, <<>>, nextMode))

\* PlaylistManager.playTrack
playTrack(w, index) == setCurrentTrack(w, index)

\* PlaylistManager.setPlaylist
pmSetPlaylist(w, tracks, autoPlay) ==
    LET w1 == setPlaylist(w, tracks)
    IN  IF autoPlay /\ Len(tracks) > 0 THEN playTrack(w1, 0) ELSE w1

\* PlaylistManager.removeTrack
removeTrack(w, index) ==
    LET currentIndex == w.st.currentTrackIndex
        w1 == removeFromPlaylist(w, index)
    IN  IF index = currentIndex /\ Len(w1.st.playlist) > 0
        THEN playTrack(w1, Min(index, Len(w1.st.playlist) - 1))
        ELSE w1

\* moveTrack that leaves currentTrackIndex as it was
moveTrack_KeepIndex(w, fromIndex, toIndex) ==
    LET p0 == w.st.playlist
        s1 == SpliceStart(fromIndex, Len(p0))
        track == IF s1 < Len(p0) THEN p0[s1 + 1] ELSE Undefined
        p1 == IF s1 < Len(p0) THEN FilterOut(p0, s1) ELSE p0
        s2 == SpliceStart(toIndex, Len(p1))
        playlist == SubSeq(p1, 1, s2) \o <<track>> \o SubSeq(p1, s2 + 1, Len(p1))
    IN  emit(set(w, [playlist |-> playlist]),
             Ev("playlist:update", -1, Undefined, playlist, ""))

\* PlaylistManager.moveTrack
moveTrack(w, fromIndex, toIndex) ==
    LET p0 == w.st.playlist
        currentIndex == w.st.currentTrackIndex
        s1 == SpliceStart(fromIndex, Len(p0))
        track == IF s1 < Len(p0) THEN p0[s1 + 1] ELSE Undefined
        p1 == IF s1 < Len(p0) THEN FilterOut(p0, s1) ELSE p0
        s2 == SpliceStart(toIndex, Len(p1))
        playlist == SubSeq(p1, 1, s2) \o <<track>> \o SubSeq(p1, s2 + 1, Len(p1))
        newCurrentIndex ==
            IF fromIndex = currentIndex THEN toIndex
            ELSE IF fromIndex < currentIndex /\ toIndex >= currentIndex
                 THEN currentIndex - 1
            ELSE IF fromIndex > currentIndex /\ toIndex <= currentIndex
                 THEN currentIndex + 1
            ELSE currentIndex
    IN  emit(set(w, [playlist |-> playlist, currentTrackIndex |-> newCurrentIndex]),
             Ev("playlist:update", -1, Undefined, playlist, ""))

\* PlaylistManager.playNext
playNext(w) ==
    LET nextIndex == getNextTrackIndex(w.st)
    IN  IF nextIndex >= 0 THEN playTrack(w, nextIndex) ELSE w

\* PlaylistManager.playPrevious
playPrevious(w) ==
    LET prevIndex == getPreviousTrackIndex(w.st)
    IN  IF prevIndex >= 0 THEN playTrack(w, prevIndex) ELSE w

\* handleEnded that starts over at the first track when there is no next track
handleEnded_StartOver(w) ==
    LET w1 == emit(set(w, [isPlaying |-> FALSE]),
                   Ev("player:ended", -1, Undefined, <<>>, ""))
        nextIndex == getNextTrackIndex(w1.st)
    IN  setCurrentTrack(w1, IF nextIndex >= 0 THEN nextIndex ELSE 0)

\* MediaController.handleEnded (the delayed play() acts on the media element only)
handleEnded(w) ==
    LET w1 == emit(set(w, [isPlaying |-> FALSE]),
                   Ev("player:ended", -1, Undefined, <<>>, ""))
        nextIndex == getNextTrackIndex(w1.st)
    IN  IF nextIndex >= 0 THEN setCurrentTrack(w1, nextIndex) ELSE w1

\* the values of KeyboardEvent.key that are pressed: n, N (with Shift or Caps Lock)
\* and c, a key whose action (the subtitle toggle) changes nothing of the playlist
Keys == <<"n", "N", "c">>

\* String.prototype.toLowerCase
toLowerCase(key) == IF key = "N" THEN "n" ELSE key

\* KeyboardController.shouldIgnore
shouldIgnore(enabled, isInputFocused) ==
    IF ~enabled THEN TRUE ELSE isInputFocused

\* KeyboardController.handleKeyDown.  The switch has two clauses with the label 'n':
\* the first one whose label equals the key runs, and its break leaves the switch
\* whether or not its if was taken, so the second 'n' clause (playNext) never runs.
handleKeyDown(w, key, shiftKey, enabled, isInputFocused) ==
    IF shouldIgnore(enabled, isInputFocused) THEN w
    ELSE CASE toLowerCase(key) = "n" ->
                  IF shiftKey THEN playPrevious(w) ELSE w
           [] OTHER -> w

\* FileLoader.cleanupTracks: the loop stops (TypeError) at an undefined entry
RECURSIVE cleanupTracks(_, _, _)
cleanupTracks(w, tracks, k) ==
    IF k > Len(tracks) \/ tracks[k] = Undefined THEN w
    ELSE cleanupTracks(IF IsBlob(tracks[k]) THEN [w EXCEPT !.rev[tracks[k]] = @ + 1] ELSE w,
                       tracks, k + 1)

\* PlayerCore.destroy: cleanupTracks(playlist), then eventBus.clear(), which a
\* TypeError in cleanupTracks keeps from running
destroy(w) ==
    LET w1 == cleanupTracks(w, w.st.playlist, 1)
    IN  IF Undefined \in Range(w.st.playlist) THEN w1 ELSE [w1 EXCEPT !.sub = FALSE]

\* ------------------------------------------------------- StateManager.get
\* the state fields whose values are Array objects
ArrayFields == {"playlist", "shuffledOrder"}

\* StateManager.get: this.state[key], or { ...this.state } without a key
\* (key = "").  shares names the Array objects of this.state that can be reached
\* from the returned value: a field read returns the object itself, the spread
\* copies the top level only.
get(st, key) ==
    IF key # ""
    THEN [value |-> st[key], shares |-> {key} \cap ArrayFields]
    ELSE [value |-> st, shares |-> ArrayFields]

\* the fields of an object that hold primitive values: the part of a snapshot
\* that is the caller's own
OwnFields(obj) == [f \in (DOMAIN obj) \ ArrayFields |-> obj[f]]

\* a caller that has not called get
\*   held      the fields of this.state whose Array object the caller can reach
\*   snapshot  the primitive fields of the object get() returned last, if any
\*   stored    the state as the store's own methods left it
NoClient == [held |-> {}, snapshot |-> <<>>, stored |-> InitState]

\* --------------------------------------------------------------- EventBus
\* The EventBus class by itself, used by client code that registers handler
\* functions.  (In the specifications above the same bus is the flag subscribed:
\* it holds PlayerCore's handlers or none.)
Topics   == {"t1", "t2"}

\* the handler functions of the client:
\*   "ok"  returns normally,
\*   "bad" throws,
\*   "re"  emits the event it was called for, the first time it is called
Handlers == {"ok", "bad", "re"}

\* the members of a listener Set: a handler function itself (EventBus.on), or the
\* wrapper closure EventBus.once makes, a new function object on every call
Fn(h)         == [kind |-> "fn", id |-> 0, h |-> h]
Wrapper(n, h) == [kind |-> "once", id |-> n, h |-> h]
\* the slot of a deleted member: Set.prototype.forEach passes over it, while
\* members added during the iteration are appended and visited
Empty         == [kind |-> "empty", id |-> 0, h |-> "none"]

\* new EventBus(), and a client that has done nothing yet
\*   events      this.events: Map from event name to the Set of callbacks
\*   wrappers    number of wrapper closures made by once
\*   tokens      the unsubscribe functions on() has returned, and whether each was called
\*   pristine    neither off() nor clear() has been called directly
\*   republished the handler "re" has been called
\*   topic, before, log   the emit just made by client code, if the last call was
\*               one: its event, the listener Set when it was called, the callbacks
\*               it invoked in order
\*   onceCalls   per wrapper: how often the handler given to once has been called
\*   threw       an exception is in flight (after emit: it reached the caller)
NewBus ==
    [ events      |-> [e \in {} |-> <<>>],
      wrappers    |-> 0,
      tokens      |-> <<>>,
      pristine    |-> TRUE,
      republished |-> FALSE,
      topic       |-> "none",
      before      |-> <<>>,
      log         |-> <<>>,
      onceCalls   |-> <<>>,
      threw       |-> FALSE ]

\* this.events.has(event)
has(b, event) == event \in DOMAIN b.events

\* this.events.set(event, listeners)
mapSet(b, event, listeners) ==
    [b EXCEPT !.events = [e \in (DOMAIN b.events) \cup {event} |->
                             IF e = event THEN listeners ELSE b.events[e]]]

\* Set.prototype.add
setAdd(listeners, callback) ==
    IF callback \in Range(listeners) THEN listeners ELSE Append(listeners, callback)

\* Set.prototype.delete
setDelete(listeners, callback) ==
    [k \in 1..Len(listeners) |-> IF listeners[k] = callback THEN Empty ELSE listeners[k]]

\* Set.prototype.size
setSize(listeners) == Cardinality({k \in 1..Len(listeners) : listeners[k] # Empty})

\* EventBus.on (the unsubscribe function it returns is recorded by the caller)
on(b, event, callback) ==
    LET b1 == IF has(b, event) THEN b ELSE mapSet(b, event, <<>>)
    IN  mapSet(b1, event, setAdd(b1.events[event], callback))

\* EventBus.off
off(b, event, callback) ==
    IF has(b, event) THEN mapSet(b, event, setDelete(b.events[event], callback)) ELSE b

\* EventBus.once
once(b, event, callback) ==
    LET wrapper == Wrapper(b.wrappers + 1, callback)
    IN  on([b EXCEPT !.wrappers = @ + 1, !.onceCalls = Append(@, 0)], event, wrapper)

\* EventBus.clear
clear(b, event) ==
    IF event # "none"
    THEN [b EXCEPT !.events = [e \in (DOMAIN b.events) \ {event} |-> b.events[e]]]
    ELSE [b EXCEPT !.events = [e \in {} |-> <<>>]]

\* EventBus.listenerCount
listenerCount(b, event) == IF has(b, event) THEN setSize(b.events[event]) ELSE 0

RECURSIVE emitEvent(_, _)
RECURSIVE forEach(_, _, _)

\* a call of the client's handler function h
handler(b, event, h) ==
    CASE h = "bad" -> [b EXCEPT !.threw = TRUE]
      [] h = "re"  -> IF b.republished THEN b
                      ELSE emitEvent([b EXCEPT !.republished = TRUE], event)
      [] OTHER     -> b

\* callback(data) for a member of the listener Set: the handler itself, or the
\* wrapper of once: callback(...args); this.off(event, wrapper)
invokeCallback(b, event, callback) ==
    LET b0 == [b EXCEPT !.log = Append(@, callback)]
    IN  IF callback.kind = "once"
        THEN LET b1 == handler([b0 EXCEPT !.onceCalls[callback.id] = @ + 1],
                               event, callback.h)
             IN  IF b1.threw THEN b1 ELSE off(b1, event, callback)
        ELSE handler(b0, event, callback.h)

\* try/catch that lets the error through
catchError_Rethrow(b) == b

\* try { callback(data) } catch (error) { console.error(...) }
catchError(b) == [b EXCEPT !.threw = FALSE]

\* this.events.get(event).forEach(...), from slot i on
forEach(b, event, i) ==
    IF i > Len(b.events[event]) THEN b
    ELSE LET callback == b.events[event][i]
         IN  IF callback = Empty THEN forEach(b, event, i + 1)
             ELSE LET b1 == catchError(invokeCallback(b, event, callback))
                  IN  IF b1.threw THEN b1 ELSE forEach(b1, event, i + 1)

\* EventBus.emit
emitEvent(b, event) ==
    IF has(b, event) THEN forEach(b, event, 1) ELSE b

\* no iteration is in progress: the slots of deleted members are gone
Compact(b) ==
    [b EXCEPT !.events = [e \in DOMAIN b.events |->
                             SelectSeq(b.events[e], LAMBDA c : c # Empty)]]

\* ------------------------------------------- preferences and localStorage
\* The preference fields of StateManager.state, the media element's volume
\* attributes, VolumeController, ThemeManager and window.localStorage, in the
\* variable session.  Numbers are scaled to integers: volumes in tenths, playback
\* rates in quarters.  A JS value that may be null is a sequence of at most one
\* element: Null, or <<v>>.
DEFAULT_VOLUME == 10        \* PLAYER_CONFIG.DEFAULT_VOLUME: 1
DEFAULT_SPEED  == 4         \* PLAYER_CONFIG.DEFAULT_SPEED: 1
Null == <<>>

\* the volumes 0, 0.5 and 1, and arguments of setVolume below 0 and above 1
Volumes    == {0, 5, DEFAULT_VOLUME}
VolumeArgs == Volumes \cup {0 - 5, 15}
\* PLAYER_CONFIG.PLAYBACK_SPEEDS (1 and 1.5 of them), and 1.25 * 1.1 which is none
PLAYBACK_SPEEDS == {DEFAULT_SPEED, 6}
SpeedArgs  == PLAYBACK_SPEEDS \cup {5}
\* PLAYER_CONFIG.THEMES, and a string that is no theme
THEMES     == [DARK |-> "dark", LIGHT |-> "light"]
ThemeArgs  == {THEMES.DARK, THEMES.LIGHT, "sepia"}
\* PLAYER_CONFIG.STORAGE_KEYS
STORAGE_KEYS ==
    [ VOLUME         |-> "las-player-volume",
      THEME          |-> "las-player-theme",
      PLAYBACK_SPEED |-> "las-player-speed",
      PLAYLIST       |-> "las-player-playlist" ]

\* JSON.stringify and JSON.parse on finite numbers and strings: the text of a value
\* is written [json |-> value], and parsing a text gives the value it was made from
JSONstringify(value) == [json |-> value]
JSONparse(item) == item.json

\* localStorage.getItem: the stored text, or null
getItem(storage, key) == IF key \in DOMAIN storage THEN <<storage[key]>> ELSE Null

\* localStorage.setItem
setItem(storage, key, item) ==
    [k \in (DOMAIN storage) \cup {key} |-> IF k = key THEN item ELSE storage[k]]

\* helpers.storageGet with the default defaultValue null
storageGet(storage, key) ==
    LET item == getItem(storage, key)
    IN  IF item # Null THEN <<JSONparse(item[1])>> ELSE Null

\* helpers.storageSet
storageSet(storage, key, value) == setItem(storage, key, JSONstringify(value))

\* StateManager.persistState
persistState(storage, updates) ==
    LET s1 == IF "volume" \in DOMAIN updates
              THEN storageSet(storage, STORAGE_KEYS.VOLUME, updates.volume)
              ELSE storage
        s2 == IF "theme" \in DOMAIN updates
              THEN storageSet(s1, STORAGE_KEYS.THEME, updates.theme)
              ELSE s1
    IN  IF "playbackRate" \in DOMAIN updates
        THEN storageSet(s2, STORAGE_KEYS.PLAYBACK_SPEED, updates.playbackRate)
        ELSE s2

\* the preference fields of the state object the constructor makes
PrefDefaults ==
    [ volume       |-> DEFAULT_VOLUME,
      isMuted      |-> FALSE,
      theme        |-> THEMES.DARK,
      playbackRate |-> DEFAULT_SPEED ]

\* loadPersistedState that takes a saved volume only if it is truthy
loadPersistedState_TruthyVolume(st, storage) ==
    LET savedVolume == storageGet(storage, STORAGE_KEYS.VOLUME)
        savedTheme  == storageGet(storage, STORAGE_KEYS.THEME)
        savedSpeed  == storageGet(storage, STORAGE_KEYS.PLAYBACK_SPEED)
        st1 == IF savedVolume # Null /\ savedVolume[1] # 0
               THEN [st EXCEPT !.volume = savedVolume[1]] ELSE st
        st2 == IF savedTheme # Null /\ savedTheme[1] # ""
               THEN [st1 EXCEPT !.theme = savedTheme[1]] ELSE st1
    IN  IF savedSpeed # Null THEN [st2 EXCEPT !.playbackRate = savedSpeed[1]] ELSE st2

\* StateManager.loadPersistedState
loadPersistedState(st, storage) ==
    LET savedVolume == storageGet(storage, STORAGE_KEYS.VOLUME)
        savedTheme  == storageGet(storage, STORAGE_KEYS.THEME)
        savedSpeed  == storageGet(storage, STORAGE_KEYS.PLAYBACK_SPEED)
        st1 == IF savedVolume # Null THEN [st EXCEPT !.volume = savedVolume[1]] ELSE st
        st2 == IF savedTheme # Null /\ savedTheme[1] # ""
               THEN [st1 EXCEPT !.theme = savedTheme[1]] ELSE st1
    IN  IF savedSpeed # Null THEN [st2 EXCEPT !.playbackRate = savedSpeed[1]] ELSE st2

\* new StateManager(): the preference fields
StateManager(storage) == loadPersistedState(PrefDefaults, storage)

\* no call observed
NoPrefCall == [op |-> "none", arg |-> <<>>, persist |-> TRUE, before |-> <<>>]

\* StateManager.set on the preference fields of a session
stateSet(s, updates) ==
    [s EXCEPT !.st = Merge(s.st, updates),
              !.storage = persistState(s.storage, updates)]

\* helpers.clamp
clamp(value, min, max) == Min(max, Max(min, value))

\* the media element's volume and muted setters: a change of either attribute
\* queues a volumechange event
mediaSet(s, attribute, value) ==
    [s EXCEPT !.media[attribute] = value,
              !.pending = s.pending \/ s.media[attribute] # value]

\* VolumeController.setVolume (the event it emits leads to UIManager only)
setVolume(s, value) ==
    LET volume == clamp(value, 0, DEFAULT_VOLUME)
        s1 == mediaSet(s, "volume", volume)
        s2 == IF volume > 0
              THEN mediaSet([s1 EXCEPT !.lastVolume = volume], "muted", FALSE)
              ELSE s1
    IN  stateSet(s2, [volume |-> volume, isMuted |-> (volume = 0)])

\* VolumeController.mute
mute(s) ==
    LET s1 == IF s.media.volume > 0 THEN [s EXCEPT !.lastVolume = s.media.volume] ELSE s
    IN  stateSet(mediaSet(s1, "muted", TRUE), [isMuted |-> TRUE])

\* VolumeController.unmute
unmute(s) ==
    LET s1 == mediaSet(s, "muted", FALSE)
        s2 == IF s1.media.volume = 0
              THEN setVolume(s1, IF s1.lastVolume > 0 THEN s1.lastVolume ELSE DEFAULT_VOLUME)
              ELSE s1
    IN  stateSet(s2, [isMuted |-> FALSE])

\* VolumeController.toggleMute
toggleMute(s) ==
    IF s.media.muted \/ s.media.volume = 0 THEN unmute(s) ELSE mute(s)

\* VolumeController.handleVolumeChange, the listener of the volumechange event
handleVolumeChange(s) ==
    LET volume == IF s.media.muted THEN 0 ELSE s.media.volume
    IN  stateSet([s EXCEPT !.pending = FALSE],
                 [volume |-> volume, isMuted |-> s.media.muted])

\* ThemeManager.setTheme: the parameter persist is not used in its body
setTheme(s, theme, persist) ==
    IF theme \notin {THEMES[k] : k \in DOMAIN THEMES} THEN s
    ELSE stateSet(s, [theme |-> theme])

\* ThemeManager.toggle
toggle(s) ==
    setTheme(s, IF s.st.theme = THEMES.DARK THEN THEMES.LIGHT ELSE THEMES.DARK, TRUE)

\* ThemeManager.detectSystemTheme: its body at construction
detectSystemTheme(s, prefersDark) ==
    IF s.st.theme = ""
    THEN setTheme(s, IF prefersDark THEN THEMES.DARK ELSE THEMES.LIGHT, FALSE)
    ELSE s

\* the listener detectSystemTheme adds for changes of prefers-color-scheme
systemThemeChange(s, matches) ==
    LET savedTheme == getItem(s.storage, STORAGE_KEYS.THEME)
    IN  IF savedTheme = Null
        THEN setTheme(s, IF matches THEN THEMES.DARK ELSE THEMES.LIGHT, FALSE)
        ELSE s

\* MediaController.setPlaybackRate
setPlaybackRate(s, rate) ==
    IF rate \in PLAYBACK_SPEEDS THEN stateSet(s, [playbackRate |-> rate]) ELSE s

\* VolumeController.restoreVolume (setVolume(savedVolume, false))
restoreVolume(s) == setVolume(s, s.st.volume)

\* a page load with the given localStorage: new StateManager(), a media element
\* with its default volume, new VolumeController() and new ThemeManager()
NewSession(storage, prefersDark) ==
    LET s0 == [ st         |-> StateManager(storage),
                storage    |-> storage,
                media      |-> [volume |-> DEFAULT_VOLUME, muted |-> FALSE],
                pending    |-> FALSE,
                lastVolume |-> DEFAULT_VOLUME,
                call       |-> NoPrefCall ]
    IN  detectSystemTheme(restoreVolume(s0), prefersDark)

\* the first page load: localStorage is empty
EmptyStorage == [k \in {} |-> Null]
FirstSession == NewSession(EmptyStorage, TRUE)

\* ------------------------------------------------- the cascade of one event
\* EventBus.emit as the application uses it: the handlers PlayerCore's components
\* register, in the order of their registration per event name
Subscribers(topic) ==
    CASE topic = "player:timeupdate"     -> <<"ProgressController.updateProgress">>
      [] topic = "player:durationchange" -> <<"ProgressController.updateDuration">>
      [] topic = "media:load"            -> <<"ProgressController.reset",
                                              "SubtitleController.clear",
                                              "AudioVisualizer.onMediaLoad",
                                              "UIManager.hideError">>
      [] topic = "playlist:trackchange"  -> <<"MediaController.loadTrack",
                                              "PlaylistUI.updateActiveTrack">>
      [] topic = "player:play"           -> <<"AudioVisualizer.onPlay", "UIManager.onPlay">>
      [] topic = "player:pause"          -> <<"AudioVisualizer.onPause", "UIManager.onPause">>
      [] topic = "player:stop"           -> <<"AudioVisualizer.stop">>
      [] topic = "media:typechange"      -> <<"AudioVisualizer.onMediaTypeChange",
                                              "UIManager.onMediaTypeChange">>
      [] topic = "ui:fullscreen:change"  -> <<"UIManager.onFullscreenChange">>
      [] topic = "volume:change"         -> <<"UIManager.updateVolumeUI">>
      [] topic = "player:speedchange"    -> <<"UIManager.updateSpeedUI">>
      [] topic = "playlist:update"       -> <<"UIManager.updatePlaylistUI", "PlaylistUI.render">>
      [] topic = "playlist:shuffle"      -> <<"UIManager.updateShuffleUI">>
      [] topic = "playlist:repeat"       -> <<"UIManager.updateRepeatUI">>
      [] topic = "subtitle:toggle"       -> <<"UIManager.updateSubtitleUI">>
      [] topic = "media:error"           -> <<"UIManager.showError">>
      [] topic = "ui:playlist:render"    -> <<"PlaylistUI.render">>
      [] topic = "player:ended"          -> <<"PlaylistManager.handleTrackEnded">>
      [] OTHER                           -> <<>>

\* a MEDIA_LOAD handler that plays the next track
Publishes_AdvanceOnLoad(h) ==
    CASE h = "MediaController.loadTrack"  -> {<<>>, <<"media:load">>}
      [] h = "UIManager.updatePlaylistUI" -> {<<"ui:playlist:render">>}
      [] h = "UIManager.onPause"          -> {<<"ui:controls:show">>}
      [] h = "ProgressController.reset"   -> {<<>>, <<"playlist:trackchange">>}
      [] OTHER                            -> {<<>>}

\* what a registered handler publishes while it runs, one sequence of event names
\* per path through its body: loadTrack returns early for a track without url, and
\* emits MEDIA_LOAD otherwise; updatePlaylistUI emits 'ui:playlist:render'; onPause
\* calls showControls, which emits CONTROLS_SHOW; the other handlers emit nothing
Publishes(h) ==
    CASE h = "MediaController.loadTrack"  -> {<<>>, <<"media:load">>}
      [] h = "UIManager.updatePlaylistUI" -> {<<"ui:playlist:render">>}
      [] h = "UIManager.onPause"          -> {<<"ui:controls:show">>}
      [] OTHER                            -> {<<>>}

\* the callbacks the media element calls
MediaCallbacks ==
    [ handlePlay           |-> {<<"player:play">>},
      handlePause          |-> {<<"player:pause">>},
      handleEnded          |-> {<<"player:ended">>,
                                <<"player:ended", "playlist:trackchange">>},
      handleTimeUpdate     |-> {<<"player:timeupdate">>},
      handleLoadedMetadata |-> {<<"player:durationchange">>},
      handleBuffering      |-> {<<>>},
      handleError          |-> {<<"media:error">>},
      handleVolumeChange   |-> {<<"volume:change">>} ]

\* the methods user actions call
UserActions ==
    [ openFiles         |-> {<<"playlist:update">>,
                             <<"playlist:update", "playlist:trackchange", "media:typechange">>},
      loadUrl           |-> {<<"media:typechange">>, <<"media:load", "media:typechange">>},
      addTracks         |-> {<<"playlist:update">>},
      removeTrack       |-> {<<"playlist:update">>,
                             <<"playlist:update", "playlist:trackchange">>},
      moveTrack         |-> {<<"playlist:update">>},
      playTrack         |-> {<<>>, <<"playlist:trackchange">>},
      playNext          |-> {<<>>, <<"playlist:trackchange">>},
      playPrevious      |-> {<<>>, <<"playlist:trackchange">>},
      toggleShuffle     |-> {<<"playlist:shuffle">>},
      cycleRepeat       |-> {<<"playlist:repeat">>},
      stop              |-> {<<"player:stop">>},
      seek              |-> {<<>>, <<"player:seek">>},
      setPlaybackRate   |-> {<<>>, <<"player:speedchange">>},
      setVolume         |-> {<<>>, <<"volume:change">>},
      mute              |-> {<<"volume:mute">>},
      unmute            |-> {<<"volume:mute">>, <<"volume:change", "volume:mute">>},
      setTheme          |-> {<<>>, <<"ui:theme:change">>},
      subtitleLoad      |-> {<<"subtitle:load">>},
      subtitleToggle    |-> {<<>>, <<"subtitle:toggle">>},
      toggleFullscreen  |-> {<<"ui:fullscreen:change">>},
      togglePiP         |-> {<<"ui:pip:change">>},
      toggleSidebar     |-> {<<"ui:sidebar:toggle">>},
      showControls      |-> {<<"ui:controls:show">>},
      hideControls      |-> {<<>>, <<"ui:controls:hide">>} ]

\* every external event with the sequences of event names its own body publishes,
\* one per path through the body
ExternalEvents ==
    [e \in (DOMAIN MediaCallbacks) \cup (DOMAIN UserActions) |->
        IF e \in DOMAIN MediaCallbacks THEN MediaCallbacks[e] ELSE UserActions[e]]

\* One call in progress: of eventBus.emit(topic), which has called the first
\* next - 1 subscribers of topic, or (the bottom frame) of the external event's
\* own method.  todo is what the function that is running now has still to publish.
Frame(topic, todo) == [topic |-> topic, next |-> 1, todo |-> todo]

\* nothing is running
NoDelivery == [stack |-> <<>>, count |-> 0]

\* ---------------------------------------------------------------- actions
NoCall == [op |-> "none", a |-> 0, b |-> 0, prev |-> InitState]

\* the modules are imported: the store and the bus exist, nothing is subscribed
Init ==
    /\ state = InitState
    /\ mediaSrc = NoSrc
    /\ revoked = [t \in Tracks |-> 0]
    /\ numCreated = 0
    /\ subscribed = FALSE
    /\ published = <<>>
    /\ last = NoCall
    /\ bus = NewBus
    /\ client = NoClient
    /\ session = FirstSession
    /\ delivery = NoDelivery

\* new PlayerCore(): MediaController, UIManager and PlaylistUI have subscribed
AppInit ==
    /\ state = InitState
    /\ mediaSrc = NoSrc
    /\ revoked = [t \in Tracks |-> 0]
    /\ numCreated = 0
    /\ subscribed = TRUE
    /\ published = <<>>
    /\ last = NoCall
    /\ bus = NewBus
    /\ client = NoClient
    /\ session = FirstSession
    /\ delivery = NoDelivery

\* The effect of one call.  A run is observed at its final call only: that call's
\* name, arguments, pre-state and published events are recorded, and the run ends.
Commit(w, op, a, b, created) ==
    /\ last = NoCall
    /\ Len(w.st.playlist) <= MaxLen
    /\ \A t \in Tracks : w.rev[t] <= MaxRevoke
    /\ state' = w.st
    /\ mediaSrc' = w.src
    /\ revoked' = w.rev
    /\ subscribed' = w.sub
    /\ numCreated' = numCreated + created
    /\ bus' = bus
    /\ client' = client
    /\ session' = session
    /\ delivery' = delivery
    /\ \E observe \in BOOLEAN :
          /\ last' = IF observe THEN [op |-> op, a |-> a, b |-> b, prev |-> state]
                     ELSE NoCall
          /\ published' = IF observe THEN w.pub ELSE <<>>

\* ---- the store and the playlist manager called directly, with index arguments
\* ---- that are any integer of IndexArgs

\* the first n tracks
TrackList(n) == [i \in 1..n |-> i]

\* the k lowest-numbered tracks that are not in the playlist s
RECURSIVE Absent(_, _, _)
Absent(s, k, from) ==
    IF k = 0 \/ from > MaxTracks THEN <<>>
    ELSE IF from \in Range(s) THEN Absent(s, k, from + 1)
    ELSE <<from>> \o Absent(s, k - 1, from + 1)

SetPlaylist ==
    \E n \in 0..MaxTracks :
        Commit(setPlaylist(World, TrackList(n)), "setPlaylist", n, 0, 0)

AddToPlaylist ==
    \E k \in 0..MaxTracks :
        /\ last = NoCall
        /\ Len(Absent(state.playlist, k, 1)) = k
        /\ Commit(addToPlaylist(World, Absent(state.playlist, k, 1)), "addToPlaylist", k, 0, 0)

RemoveFromPlaylist ==
    \E index \in IndexArgs :
        Commit(removeFromPlaylist(World, index), "removeFromPlaylist", index, 0, 0)

RemoveTrack ==
    \E index \in IndexArgs :
        Commit(removeTrack(World, index), "removeTrack", index, 0, 0)

SetCurrentTrack ==
    \E index \in IndexArgs :
        Commit(setCurrentTrack(World, index), "setCurrentTrack", index, 0, 0)

ToggleShuffle ==
    /\ last = NoCall
    /\ \E js \in RandomChoices(Len(OtherIndices(state))) :
        Commit(toggleShuffle(World, js), "toggleShuffle", 0, 0, 0)

CycleRepeatMode ==
    Commit(cycleRepeatMode(World), "cycleRepeatMode", 0, 0, 0)

MoveTrack ==
    /\ last = NoCall
    /\ \E fromIndex \in IndexArgs, toIndex \in IndexArgs :
        Commit(moveTrack(World, fromIndex, toIndex), "moveTrack", fromIndex, toIndex, 0)

PlayNext == Commit(playNext(World), "playNext", 0, 0, 0)

PlayPrevious == Commit(playPrevious(World), "playPrevious", 0, 0, 0)

Next ==
    \/ SetPlaylist
    \/ AddToPlaylist
    \/ RemoveFromPlaylist
    \/ RemoveTrack
    \/ SetCurrentTrack
    \/ ToggleShuffle
    \/ CycleRepeatMode
    \/ MoveTrack
    \/ PlayNext
    \/ PlayPrevious

Spec == Init /\ [][Next]_vars

\* ---- the application: PlayerCore and PlaylistUI drive the playlist manager with
\* ---- tracks made from files and with the indices of rendered playlist items

\* the tracks k fresh files become (FileLoader.createTrackFromFile)
Fresh(k) == [i \in 1..k |-> numCreated + i]

ValidIndices == 0..(Len(state.playlist) - 1)

\* PlayerCore.handleOpenFile / handleOpenFolder / drop / loadFile
LoadFiles ==
    \E k \in 1..(MaxTracks - numCreated) :
        Commit(pmSetPlaylist(World, Fresh(k), TRUE), "loadFiles", k, 0, k)

\* PlaylistUI: the remove button of item index
UiRemoveTrack ==
    \E index \in ValidIndices :
        Commit(removeTrack(World, index), "removeTrack", index, 0, 0)

\* PlaylistUI: a click on item index
UiPlayTrack ==
    \E index \in ValidIndices :
        Commit(playTrack(World, index), "playTrack", index, 0, 0)

\* the media element's ended callback: it needs a loaded source
HandleEnded ==
    /\ mediaSrc # NoSrc
    /\ Commit(handleEnded(World), "handleEnded", 0, 0, 0)

\* a keydown event on the document
KeyDown ==
    \E k \in 1..Len(Keys), shiftKey \in BOOLEAN, enabled \in BOOLEAN, isInputFocused \in BOOLEAN :
        Commit(handleKeyDown(World, Keys[k], shiftKey, enabled, isInputFocused),
               IF shouldIgnore(enabled, isInputFocused) THEN "keydown:ignored" ELSE "keydown",
               k, IF shiftKey THEN 1 ELSE 0, 0)

\* PlayerCore.destroy
Destroy ==
    /\ subscribed
    /\ Commit(destroy(World), "destroy", 0, 0, 0)

AppNext ==
    \/ LoadFiles
    \/ UiRemoveTrack
    \/ UiPlayTrack
    \/ PlayNext
    \/ PlayPrevious
    \/ CycleRepeatMode
    \/ HandleEnded
    \/ KeyDown
    \/ Destroy

AppSpec == AppInit /\ [][AppNext]_vars

\* ---- the EventBus class used by client code

AppVars == <<state, mediaSrc, revoked, numCreated, subscribed, published, last, client, session, delivery>>

\* a call other than emit: the record of the last emit is dropped
Forget(b) == [b EXCEPT !.topic = "none", !.before = <<>>, !.log = <<>>, !.threw = FALSE]

\* number of on / once calls so far
Registrations == bus.wrappers + Len(bus.tokens)

\* const unsubscribe = eventBus.on(event, h)
On ==
    \E event \in Topics, h \in Handlers :
        /\ Registrations < MaxSubs
        /\ bus' = [on(Forget(bus), event, Fn(h)) EXCEPT
                      !.tokens = Append(@, [event |-> event, callback |-> Fn(h),
                                            called |-> FALSE])]
        /\ UNCHANGED AppVars

\* eventBus.once(event, h)
Once ==
    \E event \in Topics, h \in Handlers :
        /\ Registrations < MaxSubs
        /\ bus' = once(Forget(bus), event, h)
        /\ UNCHANGED AppVars

\* eventBus.off(event, h)
Off ==
    \E event \in Topics, h \in Handlers :
        /\ bus' = [Compact(off(Forget(bus), event, Fn(h))) EXCEPT !.pristine = FALSE]
        /\ UNCHANGED AppVars

\* unsubscribe(): a call of a function that on() returned
Unsubscribe ==
    \E i \in 1..Len(bus.tokens) :
        /\ bus' = [Compact(off(Forget(bus), bus.tokens[i].event, bus.tokens[i].callback)) EXCEPT
                      !.tokens[i].called = TRUE]
        /\ UNCHANGED AppVars

\* eventBus.emit(event, data) from client code
EmitEvent ==
    \E event \in Topics :
        LET b0 == [bus EXCEPT !.topic = event,
                              !.before = IF has(bus, event) THEN bus.events[event] ELSE <<>>,
                              !.log = <<>>,
                              !.threw = FALSE]
            b1 == emitEvent(b0, event)
        IN  /\ \A n \in 1..Len(b1.onceCalls) : b1.onceCalls[n] <= MaxCalls
            /\ bus' = Compact(b1)
            /\ UNCHANGED AppVars

\* eventBus.clear(event) / eventBus.clear()
Clear ==
    \E event \in Topics \cup {"none"} :
        /\ bus' = [clear(Forget(bus), event) EXCEPT !.pristine = FALSE]
        /\ UNCHANGED AppVars

BusNext ==
    \/ On
    \/ Once
    \/ Off
    \/ Unsubscribe
    \/ EmitEvent
    \/ Clear

BusSpec == Init /\ [][BusNext]_vars

\* ---- StateManager.get and a caller that writes to what it returned

StoreFrame == <<mediaSrc, revoked, numCreated, subscribed, published, last, bus, session, delivery>>

\* a call of a store method: the Array fields it assigns are new objects, which
\* the caller does not hold (what it writes to an object the store has dropped
\* changes nothing here)
StoreCall(w) ==
    /\ state' = w.st
    /\ client' = [client EXCEPT
                     !.held = @ \ w.assigned,
                     !.stored = w.st]
    /\ UNCHANGED StoreFrame

GetSetPlaylist ==
    \E n \in 0..MaxTracks :
        StoreCall([st |-> setPlaylist(World, TrackList(n)).st, assigned |-> {"playlist"}])

GetSetCurrentTrack ==
    \E index \in ValidIndices :
        StoreCall([st |-> setCurrentTrack(World, index).st, assigned |-> {}])

GetToggleShuffle ==
    \E js \in RandomChoices(Len(OtherIndices(state))) :
        StoreCall([st |-> toggleShuffle(World, js).st, assigned |-> {"shuffledOrder"}])

\* const value = stateManager.get(key)
GetField ==
    \E key \in {"playlist", "shuffledOrder", "currentTrackIndex"} :
        /\ client' = [client EXCEPT !.held = @ \cup get(state, key).shares]
        /\ UNCHANGED <<state, StoreFrame>>

\* const snapshot = stateManager.get()
GetSnapshot ==
    /\ client' = [client EXCEPT !.held = @ \cup get(state, "").shares,
                                !.snapshot = <<OwnFields(get(state, "").value)>>]
    /\ UNCHANGED <<state, StoreFrame>>

\* snapshot.currentTrackIndex = index
WriteSnapshot ==
    /\ client.snapshot # <<>>
    /\ \E index \in IndexArgs :
          client' = [client EXCEPT !.snapshot[1].currentTrackIndex = index]
    /\ UNCHANGED <<state, StoreFrame>>

\* array.push(x) / array.length = 0 on an Array the caller got from get
WriteArray ==
    \E f \in client.held :
        /\ \/ /\ Len(state[f]) < MaxLen
              /\ \E x \in Tracks : state' = [state EXCEPT ![f] = Append(@, x)]
           \/ state' = [state EXCEPT ![f] = <<>>]
        /\ UNCHANGED <<client, StoreFrame>>

GetNext ==
    \/ GetSetPlaylist
    \/ GetSetCurrentTrack
    \/ GetToggleShuffle
    \/ GetField
    \/ GetSnapshot
    \/ WriteSnapshot
    \/ WriteArray

GetSpec == Init /\ [][GetNext]_vars

\* ---- the preferences: volume, theme and playback rate across page loads

\* The effect of one call on the session.  As in Commit, a run is observed at its
\* final call only: its name, argument, persist flag and the storage before it.
Pref(s, op, arg, persist) ==
    /\ session.call.op = "none"
    /\ \E observe \in BOOLEAN :
          session' = [s EXCEPT !.call =
                         IF observe
                         THEN [op |-> op, arg |-> arg, persist |-> persist,
                               before |-> session.storage]
                         ELSE NoPrefCall]

MainVars == <<state, mediaSrc, revoked, numCreated, subscribed, published, last, bus, client, delivery>>

\* the update objects passed to StateManager.set
UpdateChoices ==
    {[volume |-> v] : v \in Volumes}
    \cup {[theme |-> t] : t \in {THEMES.DARK, THEMES.LIGHT}}
    \cup {[playbackRate |-> r] : r \in PLAYBACK_SPEEDS}
    \cup {[isMuted |-> b] : b \in BOOLEAN}
    \cup {[volume |-> v, theme |-> THEMES.LIGHT, playbackRate |-> 6] : v \in Volumes}

\* stateManager.set(updates) by any module
StoreSet ==
    \E updates \in UpdateChoices :
        /\ Pref(stateSet(session, updates), "set", updates, TRUE)
        /\ UNCHANGED MainVars

\* stateManager.setPlaylist(tracks): set({ playlist, currentTrackIndex }, ...)
StoreSetPlaylist ==
    \E n \in 0..MaxTracks :
        LET w == setPlaylist(World, TrackList(n))
            updates == [playlist |-> w.st.playlist,
                        currentTrackIndex |-> w.st.currentTrackIndex]
        IN  /\ Pref(stateSet(session, updates), "setPlaylist", updates, TRUE)
            /\ state' = w.st
            /\ UNCHANGED <<mediaSrc, revoked, numCreated, subscribed, published, last, bus, client,
                           delivery>>

SetVolume ==
    \E value \in VolumeArgs :
        /\ Pref(setVolume(session, value), "setVolume", value, TRUE)
        /\ UNCHANGED MainVars

Mute == Pref(mute(session), "mute", 0, TRUE) /\ UNCHANGED MainVars

Unmute == Pref(unmute(session), "unmute", 0, TRUE) /\ UNCHANGED MainVars

ToggleMute == Pref(toggleMute(session), "toggleMute", 0, TRUE) /\ UNCHANGED MainVars

\* the volumechange event is delivered
VolumeChange ==
    /\ session.pending
    /\ Pref(handleVolumeChange(session), "handleVolumeChange", 0, TRUE)
    /\ UNCHANGED MainVars

SetTheme ==
    \E theme \in ThemeArgs, persist \in BOOLEAN :
        /\ Pref(setTheme(session, theme, persist), "setTheme", theme, persist)
        /\ UNCHANGED MainVars

ToggleTheme == Pref(toggle(session), "toggle", 0, TRUE) /\ UNCHANGED MainVars

\* the operating system switches its colour scheme
SystemThemeChange ==
    \E matches \in BOOLEAN :
        /\ Pref(systemThemeChange(session, matches), "systemThemeChange",
                IF matches THEN THEMES.DARK ELSE THEMES.LIGHT, FALSE)
        /\ UNCHANGED MainVars

SetPlaybackRate ==
    \E rate \in SpeedArgs :
        /\ Pref(setPlaybackRate(session, rate), "setPlaybackRate", rate, TRUE)
        /\ UNCHANGED MainVars

\* the page is loaded again: every object is new, localStorage is kept
Reload ==
    \E prefersDark \in BOOLEAN :
        /\ Pref(NewSession(session.storage, prefersDark), "reload", 0, TRUE)
        /\ state' = InitState
        /\ UNCHANGED <<mediaSrc, revoked, numCreated, subscribed, published, last, bus, client,
                       delivery>>

PrefNext ==
    \/ StoreSet
    \/ StoreSetPlaylist
    \/ SetVolume
    \/ Mute
    \/ Unmute
    \/ ToggleMute
    \/ VolumeChange
    \/ SetTheme
    \/ ToggleTheme
    \/ SystemThemeChange
    \/ SetPlaybackRate
    \/ Reload

PrefSpec == Init /\ [][PrefNext]_vars

\* ---- the synchronous delivery of the publications one external event causes

OtherVars == <<state, mediaSrc, revoked, numCreated, subscribed, published, last, bus, client,
               session>>

Top == delivery.stack[Len(delivery.stack)]

\* a user action or a media-element callback starts to run
External ==
    /\ delivery.stack = <<>>
    /\ \E e \in DOMAIN ExternalEvents : \E script \in ExternalEvents[e] :
          delivery' = [stack |-> <<Frame(e, script)>>, count |-> 0]
    /\ UNCHANGED OtherVars

\* the function that is running calls eventBus.emit
Emit ==
    /\ delivery.stack # <<>>
    /\ Top.todo # <<>>
    /\ delivery.count < MaxPublishes
    /\ delivery' =
          [stack |-> Append([delivery.stack EXCEPT ![Len(delivery.stack)].todo = Tail(@)],
                            Frame(Head(Top.todo), <<>>)),
           count |-> delivery.count + 1]
    /\ UNCHANGED OtherVars

\* emit calls the next subscriber
Invoke ==
    /\ delivery.stack # <<>>
    /\ Len(delivery.stack) > 1
    /\ Top.todo = <<>>
    /\ Top.next <= Len(Subscribers(Top.topic))
    /\ \E out \in Publishes(Subscribers(Top.topic)[Top.next]) :
          delivery' = [delivery EXCEPT !.stack[Len(delivery.stack)] =
                          [topic |-> Top.topic, next |-> Top.next + 1, todo |-> out]]
    /\ UNCHANGED OtherVars

\* emit, or the external event's method, returns
Return ==
    /\ delivery.stack # <<>>
    /\ Top.todo = <<>>
    /\ Len(delivery.stack) > 1 => Top.next > Len(Subscribers(Top.topic))
    /\ delivery' = [delivery EXCEPT !.stack = SubSeq(@, 1, Len(@) - 1)]
    /\ UNCHANGED OtherVars

CascadeNext ==
    \/ External
    \/ Emit
    \/ Invoke
    \/ Return

CascadeSpec == Init /\ [][CascadeNext]_vars

\* ------------------------------------------------------------- properties
InRange(i, s) == i >= 0 /\ i < Len(s)

\* s lists every index of [0, n) exactly once and nothing else
IsPermutationOfIndices(s, n) ==
    /\ Len(s) = n
    /\ \A i \in 0..(n - 1) : Cardinality({k \in 1..Len(s) : s[k] = i}) = 1

\* the publications of a topic among the observed call's events
Publications(topic) == {k \in 1..Len(published) : published[k].topic = topic}

\* C1: in every reachable state currentTrackIndex is -1 or a valid index of playlist
C1_CurrentIndexValid ==
    \/ state.currentTrackIndex = -1
    \/ InRange(state.currentTrackIndex, state.playlist)

\* C2: a non-empty shuffledOrder is exactly a permutation of [0, playlist.length)
C2_ShuffledOrderIsPermutation ==
    Len(state.shuffledOrder) > 0 =>
        IsPermutationOfIndices(state.shuffledOrder, Len(state.playlist))

\* C3: every track that has left the playlist has had its blob URL revoked exactly
\* once, and no URL is revoked twice
C3_HandleReleasedExactlyOnce ==
    \A t \in 1..numCreated :
        /\ revoked[t] <= 1
        /\ t \notin Range(state.playlist) => revoked[t] = 1

\* C4: toggleShuffle, when it enables shuffle, leaves a permutation of the playlist's
\* indices that starts with the currentTrackIndex of the call, for every playlist;
\* when it disables shuffle it leaves shuffledOrder empty
C4_ToggleShuffleOrder ==
    last.op = "toggleShuffle" =>
        IF state.shuffleEnabled
        THEN /\ IsPermutationOfIndices(state.shuffledOrder, Len(state.playlist))
             /\ Len(state.shuffledOrder) > 0 =>
                    state.shuffledOrder[1] = last.prev.currentTrackIndex
        ELSE state.shuffledOrder = <<>>

\* C5: removing at a valid index removes exactly that entry, keeps the order of the
\* others, and moves currentTrackIndex: one down if the index was before it, clamped
\* to the new last index (-1 on an empty playlist) if it was the index, else unchanged
C5_RemoveAdjustsCurrentIndex ==
    (last.op \in {"removeFromPlaylist", "removeTrack"}
        /\ InRange(last.a, last.prev.playlist)) =>
        LET p == last.prev.playlist
            c == last.prev.currentTrackIndex
            i == last.a
        IN  /\ state.playlist = SubSeq(p, 1, i) \o SubSeq(p, i + 2, Len(p))
            /\ i < c => state.currentTrackIndex = c - 1
            /\ i = c => state.currentTrackIndex = Min(c, Len(state.playlist) - 1)
            /\ (i = c /\ state.playlist = <<>>) => state.currentTrackIndex = -1
            /\ i > c => state.currentTrackIndex = c

\* the current and last track of a full playlist has been removed by removeTrack
C5_Witness ==
    /\ last.op = "removeTrack"
    /\ Len(last.prev.playlist) = MaxLen
    /\ last.a = MaxLen - 1
    /\ last.prev.currentTrackIndex = last.a
    /\ state.currentTrackIndex = MaxLen - 2

\* C6: removing at an index outside [0, playlist.length) changes no state field
C6_OutOfRangeRemoveIgnored ==
    (last.op \in {"removeFromPlaylist", "removeTrack"}
        /\ ~InRange(last.a, last.prev.playlist)) =>
        state = last.prev

\* C7: setCurrentTrack(i) with a valid i leaves currentTrackIndex = i and publishes
\* track-change exactly once, carrying index i and the track at i
C7_SetCurrentTrackPublishesOnce ==
    (last.op = "setCurrentTrack" /\ InRange(last.a, last.prev.playlist)) =>
        /\ state.currentTrackIndex = last.a
        /\ Cardinality(Publications("playlist:trackchange")) = 1
        /\ \A k \in Publications("playlist:trackchange") :
              /\ published[k].index = last.a
              /\ published[k].track = last.prev.playlist[last.a + 1]

\* setCurrentTrack was called with the index that was already current
C7_Witness ==
    /\ last.op = "setCurrentTrack"
    /\ InRange(last.a, last.prev.playlist)
    /\ last.a = last.prev.currentTrackIndex
    /\ Len(last.prev.playlist) = MaxLen
    /\ Cardinality(Publications("playlist:trackchange")) = 1

\* C8: setCurrentTrack(i) with i outside [0, playlist.length) changes no state field
\* and publishes nothing
C8_SetCurrentTrackOutOfRangeNoOp ==
    (last.op = "setCurrentTrack" /\ ~InRange(last.a, last.prev.playlist)) =>
        /\ state = last.prev
        /\ published = <<>>

\* setCurrentTrack was called with the length of a non-empty playlist
C8_Witness ==
    /\ last.op = "setCurrentTrack"
    /\ Len(last.prev.playlist) > 0
    /\ last.a = Len(last.prev.playlist)
    /\ published = <<>>

\* C9: with repeatMode one and a non-empty playlist the next track is the current one
C9_RepeatOneReturnsCurrent ==
    (state.repeatMode = "one" /\ Len(state.playlist) > 0) =>
        getNextTrackIndex(state) = state.currentTrackIndex

\* repeat-one while shuffle is on and the current track is last in the shuffle order
C9_Witness ==
    /\ state.repeatMode = "one"
    /\ state.shuffleEnabled
    /\ Len(state.playlist) = MaxLen
    /\ Len(state.shuffledOrder) = MaxLen
    /\ state.shuffledOrder[MaxLen] = state.currentTrackIndex
    /\ getNextTrackIndex(state) = state.currentTrackIndex

\* C10: in sequential mode with repeatMode other than one, next is current + 1 when
\* that is a valid index; at the last index it is 0 under repeat-all and -1 under off
C10_SequentialNext ==
    (/\ ~state.shuffleEnabled \/ state.shuffledOrder = <<>>
     /\ state.repeatMode # "one"
     /\ Len(state.playlist) > 0) =>
        LET c == state.currentTrackIndex
            n == getNextTrackIndex(state)
        IN  /\ InRange(c + 1, state.playlist) => n = c + 1
            /\ c = Len(state.playlist) - 1 =>
                  n = (IF state.repeatMode = "all" THEN 0 ELSE -1)

\* sequential mode, repeat-all, the last track of a full playlist is current
C10_Witness ==
    /\ ~state.shuffleEnabled
    /\ state.repeatMode = "all"
    /\ Len(state.playlist) = MaxLen
    /\ state.currentTrackIndex = MaxLen - 1
    /\ getNextTrackIndex(state) = 0

\* shuffle mode as the navigation queries test it, on a non-empty playlist
ShuffleMode == state.shuffleEnabled /\ Len(state.shuffledOrder) > 0 /\ Len(state.playlist) > 0

\* 0-based position of currentTrackIndex in shuffledOrder, -1 if it is not there
ShufflePos == IndexOf(state.shuffledOrder, state.currentTrackIndex)

C12_ShufflePrevious ==
    ShuffleMode =>
        LET p == getPreviousTrackIndex(state)
        IN  /\ ShufflePos > 0 => p = state.shuffledOrder[ShufflePos]
            /\ ShufflePos = 0 => p = state.shuffledOrder[Len(state.shuffledOrder)]
            /\ p # -1

\* C13: in sequential mode previous mirrors next: with repeatMode one it is
\* currentTrackIndex; otherwise it is currentTrackIndex - 1 when that is a valid
\* index, and at index 0 it is the last index under repeat-all and -1 under off
C13_SequentialPrevious ==
    (/\ ~state.shuffleEnabled \/ state.shuffledOrder = <<>>
     /\ Len(state.playlist) > 0) =>
        LET c == state.currentTrackIndex
            p == getPreviousTrackIndex(state)
        IN  IF state.repeatMode = "one"
            THEN p = c
            ELSE /\ InRange(c - 1, state.playlist) => p = c - 1
                 /\ c = 0 => p = (IF state.repeatMode = "all"
                                  THEN Len(state.playlist) - 1 ELSE -1)

\* C14: setPlaylist(tracks) leaves playlist = tracks and currentTrackIndex = 0 (-1 for
\* an empty list) and publishes playlist-update exactly once, carrying tracks, on
\* every call
C14_SetPlaylistReplaces ==
    last.op = "setPlaylist" =>
        /\ state.playlist = TrackList(last.a)
        /\ state.currentTrackIndex = (IF last.a > 0 THEN 0 ELSE -1)
        /\ Cardinality(Publications("playlist:update")) = 1
        /\ \A k \in Publications("playlist:update") :
              published[k].playlist = TrackList(last.a)
        /\ \A f \in DOMAIN state \ {"playlist", "currentTrackIndex"} :
              state[f] = last.prev[f]

\* setPlaylist was called with the playlist the store already had, while its
\* second track was current
C14_Witness ==
    /\ last.op = "setPlaylist"
    /\ last.a = MaxLen
    /\ last.prev.playlist = TrackList(last.a)
    /\ last.prev.currentTrackIndex = 1
    /\ state.currentTrackIndex = 0
    /\ Cardinality(Publications("playlist:update")) = 1

\* C15: addToPlaylist(tracks) leaves the old playlist followed by tracks in their
\* order, and currentTrackIndex = 0 on a non-empty result whichever track was
\* current before
C15_AddToPlaylistAppends ==
    last.op = "addToPlaylist" =>
        LET old == last.prev.playlist
            tracks == Absent(old, last.a, 1)
        IN  /\ Len(state.playlist) = Len(old) + Len(tracks)
            /\ \A k \in 1..Len(old) : state.playlist[k] = old[k]
            /\ \A k \in 1..Len(tracks) : state.playlist[Len(old) + k] = tracks[k]
            /\ Len(state.playlist) > 0 => state.currentTrackIndex = 0

\* a track was appended to a non-empty playlist whose currentTrackIndex was not 0
C15_Witness ==
    /\ last.op = "addToPlaylist"
    /\ last.a >= 1
    /\ Len(last.prev.playlist) >= 1
    /\ last.prev.currentTrackIndex # 0
    /\ Len(state.playlist) = Len(last.prev.playlist) + last.a
    /\ state.currentTrackIndex = 0

\* the rotation off -> all -> one -> off
RotatedMode(mode) ==
    CASE mode = "off" -> "all"
      [] mode = "all" -> "one"
      [] mode = "one" -> "off"

\* C16: cycleRepeatMode maps off to all, all to one and one to off, publishes one
\* repeat-toggle event carrying the new mode and changes no other field; three
\* consecutive calls, from any state the store can be called in, return repeatMode
\* to its value
C16_CycleRepeatMode ==
    /\ last.op = "cycleRepeatMode" =>
          /\ state.repeatMode = RotatedMode(last.prev.repeatMode)
          /\ Len(published) = 1
          /\ published[1].topic = "playlist:repeat"
          /\ published[1].flag = state.repeatMode
          /\ \A f \in DOMAIN state \ {"repeatMode"} : state[f] = last.prev[f]
    /\ last = NoCall =>
       LET w1 == cycleRepeatMode(World)
           w2 == cycleRepeatMode(w1)
           w3 == cycleRepeatMode(w2)
       IN  /\ w1.st.repeatMode # state.repeatMode
           /\ w2.st.repeatMode \notin {state.repeatMode, w1.st.repeatMode}
           /\ w3.st = state
           /\ Len(w3.pub) = 3
           /\ \A k \in 1..3 : w3.pub[k].topic = "playlist:repeat"
           /\ w3.pub[3].flag = state.repeatMode

\* cycleRepeatMode was called in mode one, with shuffle on and a full playlist
C16_Witness ==
    /\ last.op = "cycleRepeatMode"
    /\ last.prev.repeatMode = "one"
    /\ state.repeatMode = "off"
    /\ state.shuffleEnabled
    /\ Len(state.playlist) = MaxLen
    /\ Len(published) = 1

\* how often the emit just made invoked callback c
Invocations(c) == Cardinality({k \in 1..Len(bus.log) : bus.log[k] = c})

\* the on(event, h) calls whose returned unsubscribe function has not been called
Subscriptions(event, h) ==
    {i \in 1..Len(bus.tokens) : /\ bus.tokens[i].event = event
                                /\ bus.tokens[i].callback = Fn(h)
                                /\ ~bus.tokens[i].called}

\* C17: k subscriptions of one handler to one topic are k registrations: an emit
\* invokes the handler once per subscription whose unsubscribe function has not been
\* called (no off or clear was called directly, none of the topic's handlers emits)
C17_DistinctRegistrations ==
    (/\ bus.topic # "none"
     /\ bus.pristine
     /\ \A k \in 1..Len(bus.before) : bus.before[k].h # "re") =>
        \A h \in Handlers :
            Invocations(Fn(h)) = Cardinality(Subscriptions(bus.topic, h))

\* C18: the handler given to once is called at most once over all emits, and its
\* wrapper is in no listener Set once it has been called, whatever the handler does
C18_OnceAtMostOnce ==
    \A n \in 1..bus.wrappers :
        /\ bus.onceCalls[n] <= 1
        /\ bus.onceCalls[n] >= 1 =>
              \A e \in DOMAIN bus.events : \A k \in 1..Len(bus.events[e]) :
                  ~(bus.events[e][k].kind = "once" /\ bus.events[e][k].id = n)

\* C19: an emit invokes every callback that was registered for the event when it was
\* called, also after callbacks that throw, and no exception reaches its caller
C19_EmitIsolatesFailures ==
    bus.topic # "none" =>
        /\ \A k \in 1..Len(bus.before) : Invocations(bus.before[k]) >= 1
        /\ ~bus.threw

\* the throwing handler was registered first, a second callback after it, and both
\* were invoked by the emit
C19_Witness ==
    /\ bus.topic # "none"
    /\ Len(bus.before) = 2
    /\ bus.before[1] = Fn("bad")
    /\ bus.log = bus.before
    /\ ~bus.threw

\* C20: nothing a caller does with a value it got from get() or get(key) changes the
\* store: every field of the state is as the store's own methods left it
C20_GetGivesNoWriteAccess ==
    state = client.stored

\* C27: in every reachable state getNextTrackIndex() and getPreviousTrackIndex()
\* each return -1 or a valid index of the playlist
C27_NextAndPreviousInRange ==
    LET n == getNextTrackIndex(state)
        p == getPreviousTrackIndex(state)
    IN  /\ n = -1 \/ InRange(n, state.playlist)
        /\ p = -1 \/ InRange(p, state.playlist)

\* C28: moveTrack(from, to) with valid from and to leaves a permutation of the
\* previous playlist (same length, same tracks) with the moved track at position to,
\* keeps the track that was current the current one, and publishes one
\* playlist-update event and no track-change event
C28_MoveTrackKeepsCurrent ==
    (/\ last.op = "moveTrack"
     /\ InRange(last.a, last.prev.playlist)
     /\ InRange(last.b, last.prev.playlist)) =>
        LET p == last.prev.playlist
            c == last.prev.currentTrackIndex
        IN  /\ Len(state.playlist) = Len(p)
            /\ \A t \in Range(p) \cup Range(state.playlist) :
                  Cardinality({k \in 1..Len(p) : p[k] = t})
                      = Cardinality({k \in 1..Len(p) : state.playlist[k] = t})
            /\ state.playlist[last.b + 1] = p[last.a + 1]
            /\ InRange(c, p) =>
                  /\ InRange(state.currentTrackIndex, state.playlist)
                  /\ state.playlist[state.currentTrackIndex + 1] = p[c + 1]
            /\ Cardinality(Publications("playlist:update")) = 1
            /\ Publications("playlist:trackchange") = {}

\* a track before the current one was moved behind it
C28_Witness ==
    /\ last.op = "moveTrack"
    /\ Len(last.prev.playlist) = MaxLen
    /\ last.a = 0
    /\ last.b = MaxLen - 1
    /\ last.prev.currentTrackIndex = 1
    /\ state.currentTrackIndex = 0
    /\ Cardinality(Publications("playlist:update")) = 1

\* the values of currentTrackIndex after each of k successive playNext() calls
RECURSIVE Visits(_, _)
Visits(w, k) ==
    IF k = 0 THEN <<>>
    ELSE LET w1 == playNext(w)
         IN  <<w1.st.currentTrackIndex>> \o Visits(w1, k - 1)

\* C29: with shuffle enabled on a playlist of n >= 1 tracks and repeatMode all, the
\* next n playNext() calls make every index of the playlist current exactly once
C29_ShuffleCycleVisitsAll ==
    (/\ state.shuffleEnabled
     /\ state.repeatMode = "all"
     /\ Len(state.playlist) >= 1) =>
        IsPermutationOfIndices(Visits(World, Len(state.playlist)), Len(state.playlist))

\* C26: the blob URL of a track is never revoked while the track is an entry of the
\* playlist
C26_PlaylistHandlesLive ==
    \A t \in Range(state.playlist) : IsBlob(t) => revoked[t] = 0

\* the store and the media element after k successive ended callbacks
RECURSIVE Ended(_, _)
Ended(w, k) == IF k = 0 THEN w ELSE Ended(handleEnded(w), k - 1)

\* the track-change events among the publications of w
TrackChanges(w) == {k \in 1..Len(w.pub) : w.pub[k].topic = "playlist:trackchange"}

\* C23: in sequential mode with repeatMode off and a non-empty playlist, an ended
\* callback leaves the playlist as it is and, while the current track is not the
\* last, makes the next index current and publishes one track-change; on the last
\* track it leaves currentTrackIndex unchanged and publishes no track-change.  The
\* playlist.length-th ended callback in a row, at the latest, is one that does not
\* advance
C23_EndedAdvancesThenStops ==
    /\ (/\ last.op = "handleEnded"
        /\ ~last.prev.shuffleEnabled
        /\ last.prev.repeatMode = "off"
        /\ Len(last.prev.playlist) >= 1) =>
           LET c == last.prev.currentTrackIndex
               n == Len(last.prev.playlist)
           IN  /\ state.playlist = last.prev.playlist
               /\ ~state.isPlaying
               /\ c < n - 1 => /\ state.currentTrackIndex = c + 1
                               /\ Cardinality(Publications("playlist:trackchange")) = 1
               /\ c >= n - 1 => /\ state.currentTrackIndex = c
                                /\ Publications("playlist:trackchange") = {}
    /\ (/\ last = NoCall
        /\ ~state.shuffleEnabled
        /\ state.repeatMode = "off"
        /\ Len(state.playlist) >= 1) =>
           LET n  == Len(state.playlist)
               w  == Ended(World, n - 1)
               w1 == handleEnded([w EXCEPT !.pub = <<>>])
           IN  /\ w.st.currentTrackIndex = n - 1
               /\ w1.st.currentTrackIndex = n - 1
               /\ TrackChanges(w1) = {}

\* the ended callback arrived while the last track of a full playlist was current,
\* and it published the ended event and nothing else
C23_Witness ==
    /\ last.op = "handleEnded"
    /\ last.prev.repeatMode = "off"
    /\ Len(last.prev.playlist) = MaxLen
    /\ last.prev.currentTrackIndex = MaxLen - 1
    /\ state.currentTrackIndex = MaxLen - 1
    /\ Len(published) = 1

\* the ended callback arrived on the first of several tracks and the second was
\* loaded
C23_WitnessAdvance ==
    /\ last.op = "handleEnded"
    /\ last.prev.repeatMode = "off"
    /\ last.prev.currentTrackIndex = 0
    /\ state.currentTrackIndex = 1
    /\ mediaSrc = state.playlist[2]

\* the store before the observed call, with the handlers of the application subscribed
Before == [World EXCEPT !.st = last.prev, !.pub = <<>>]

\* C25: a key press of N that is not ignored does what PlaylistManager.playNext()
\* does when Shift is not held, and what playPrevious() does when Shift is held
C25_KeyNPlaysNextOrPrevious ==
    (last.op = "keydown" /\ toLowerCase(Keys[last.a]) = "n") =>
        LET expected == IF last.b = 0 THEN playNext(Before) ELSE playPrevious(Before)
        IN  /\ state = expected.st
            /\ published = expected.pub

\* the localStorage key of each persisted field
PersistedKey ==
    [ volume       |-> STORAGE_KEYS.VOLUME,
      theme        |-> STORAGE_KEYS.THEME,
      playbackRate |-> STORAGE_KEYS.PLAYBACK_SPEED ]

C21_WitnessReload ==
    /\ session.call.op = "reload"
    /\ session.st.volume = 5
    /\ session.st.theme = THEMES.LIGHT
    /\ state.playlist = <<>>

\* C24: a setTheme call with persist = false, as the system-theme listener makes
\* it, leaves the theme entry of localStorage as it was
C24_SetThemeWithoutPersist ==
    (session.call.op \in {"setTheme", "systemThemeChange"} /\ ~session.call.persist) =>
        getItem(session.storage, STORAGE_KEYS.THEME)
            = getItem(session.call.before, STORAGE_KEYS.THEME)

\* C30: when the volumechange callback runs on a muted media element whose volume v
\* is above 0, the value stored under the volume key is v afterwards, and a fresh
\* store starts with volume v
C30_MuteKeepsStoredVolume ==
    (/\ session.call.op = "handleVolumeChange"
     /\ session.media.muted
     /\ session.media.volume > 0) =>
        /\ storageGet(session.storage, STORAGE_KEYS.VOLUME) = <<session.media.volume>>
        /\ StateManager(session.storage).volume = session.media.volume

\* the event names being delivered, outermost first
Delivering == [k \in 1..(Len(delivery.stack) - 1) |-> delivery.stack[k + 1].topic]

\* C22: while the publications of one external event are delivered, no event name
\* is published that is being delivered; a track-change is published only by the
\* method of the external event itself, and among the media element's callbacks
\* only by handleEnded; and the cascade stays below MaxPublishes publications
C22_CascadeIsFinite ==
    /\ \A j, k \in 1..Len(Delivering) : Delivering[j] = Delivering[k] => j = k
    /\ \A k \in 1..Len(Delivering) :
          Delivering[k] = "playlist:trackchange" =>
              /\ k = 1
              /\ delivery.stack[1].topic \in DOMAIN MediaCallbacks =>
                    delivery.stack[1].topic = "handleEnded"
    /\ delivery.count < MaxPublishes

\* the ended callback advanced to the next track, loadTrack published MEDIA_LOAD and
\* its last subscriber has been called
C22_Witness ==
    /\ Len(delivery.stack) = 3
    /\ delivery.stack[1].topic = "handleEnded"
    /\ Delivering = <<"playlist:trackchange", "media:load">>
    /\ Top.next > Len(Subscribers("media:load"))
    /\ delivery.count = 3

====
